---- MODULE Spec2Model ----
(***************************************************************************)
(* A model of the PulseOverlay browser extension: the Connection Manager   *)
(* (extension/background.js), the per-page Render Surface (PulseOverlay),  *)
(* and the pure predicates they use.                                       *)
(*                                                                         *)
(* The Connection Manager runs in one event loop.  Every handler runs to   *)
(* its first `await`, and each continuation after an `await` is a separate *)
(* step; the number of suspended continuations of each kind is state.      *)
(***************************************************************************)
EXTENDS Integers, Sequences, FiniteSets, TLC

\* ------------------------------------------------------------------ bounds
MaxSockets == 1       \* WebSocket objects alive at once (Spec)
MaxConnects == 1      \* connect() invocations suspended at an await (Spec)
RaceSockets == 2      \* WebSocket objects alive at once (SpecRace, SpecBackoff)
RaceConnects == 2     \* connect() invocations suspended at an await (SpecRace)
MaxTimerCbs == 1      \* reconnect-timer callbacks suspended at their await
MaxHandlers == 1      \* handleSettingsChange invocations suspended at their await
MaxTimers == 2        \* setTimeout timers pending at once
MaxNow == 61000       \* an episode is followed for this long (ms)
MaxTasks == 2         \* init / handleSettingsChange invocations of a page suspended at an await
MaxInbox == 2         \* events on their way to a page's listeners
MaxGraphNow == 100000 \* the graph is followed for this long (ms)
MaxPoints == 4         \* points in a followed graph buffer, with the events on their way
MaxAlarms == 1        \* keep-alive alarms (one a minute) within one failure episode

\* --------------------------------------------------------- program constants
RECONNECT_MAX_DELAY == 30000
RECONNECT_TIMEOUT == 60000
INITIAL_DELAY == 1000

\* a pause of the worker that outlasts the reconnect window
PauseMs == RECONNECT_TIMEOUT + INITIAL_DELAY

\* null of the source, for numbers and for strings
Null == -1
NoDevice == "null"
NoSocket == 0

Sockets == 1..RaceSockets
TimerIds == 1..MaxTimers

VARIABLES
  \* ---- background.js globals
  ws,                   \* the socket the manager references (NoSocket = null)
  isConnecting,
  connectionState,
  currentBpm,
  reconnectDelay,
  reconnectTimer,       \* handle of the pending timer (Null = null)
  reconnectStartTime,   \* Date.now() of the episode's first failure (Null = null)
  autoReconnectEnabled,
  \* ---- the environment of the worker
  readyState,           \* readyState of every WebSocket object created
  capacity,             \* how many connect() invocations the model follows at once
  timers,               \* pending setTimeout timers: id -> due time (Null = not pending)
  now,                  \* Date.now()
  sync,                 \* chrome.storage.sync (the Settings Store)
  local,                \* chrome.storage.local (the Shared State Store)
  \* ---- suspended continuations
  connects,             \* connect() invocations, by the await they wait at
  timerCbs,             \* timer callbacks awaiting shouldBeConnected()
  handlers,             \* handleSettingsChange invocations awaiting shouldBeConnected()
  \* ---- what the last step did, in order
  fx,
  \* ---- history
  lastArmed,            \* delay of the timer armed before, in this failure episode
  paused,               \* the 60 s timeout struck and no manual reconnect came since
  episode,              \* attempts the timer and the alarm started, and alarms, in this episode
  accepting,            \* the source accepts every connection from now on
  \* ---- one page with the content script (NoPage: no page is open)
  hostname,             \* window.location.hostname
  overlay,              \* the page's PulseOverlay object and what it registered
  tasks,                \* its init() / handleSettingsChange() invocations, by await
  inbox,                \* storage.onChanged events and runtime messages on their way to it
  graph                 \* the PulseGraph object the page's overlay draws on

vars == <<ws, isConnecting, connectionState, currentBpm, reconnectDelay,
          reconnectTimer, reconnectStartTime, autoReconnectEnabled, readyState,
          capacity, timers, now, sync, local, connects, timerCbs, handlers, fx,
          lastArmed, paused, episode, accepting, hostname, overlay, tasks, inbox,
          graph>>

managerVars == <<ws, isConnecting, connectionState, currentBpm, reconnectDelay,
                 reconnectTimer, reconnectStartTime, autoReconnectEnabled, readyState,
                 capacity, timers, now, sync, local, connects, timerCbs, handlers, fx,
                 lastArmed, paused, episode, accepting>>

\* ------------------------------------------------------------ the settings
Hosts == {"a.com", "b.com", "c.com"}
NoPage == "none"
\* an entry of siteOverrides: true, false, or no entry for the host
OverrideVals == {"true", "false", "absent"}
EmptyOverrides == [h \in Hosts |-> "absent"]
\* siteOverrides stored as null or undefined
NullOverrides == [h \in Hosts |-> "null"]

\* shared/constants.js: the defaults chrome.storage.sync.get fills in
PULSE_DEFAULTS ==
  [enabled |-> TRUE, serverUrl |-> "ws://localhost:8765", displayMode |-> "standard",
   position |-> "bottom-right", opacity |-> "0.9", size |-> "medium",
   graphDuration |-> 60, graphMinBpm |-> Null, siteOverrides |-> EmptyOverrides]

\* `settings.siteOverrides || {}`
OrEmpty(overrides) == IF overrides = NullOverrides THEN EmptyOverrides ELSE overrides

\* new WebSocket(url) throws a SyntaxError on a URL it cannot parse
UrlParses(url) == url = "ws://localhost:8765"

\* a variant of shouldBeConnected that counts every override, true or false
shouldBeConnected_AnyOverride(settings) ==
  IF settings.enabled
  THEN TRUE
  ELSE LET overrides == OrEmpty(settings.siteOverrides)
       IN \E h \in Hosts : overrides[h] \in {"true", "false"}

\* background.js shouldBeConnected, on the settings getSettings() returned
shouldBeConnected(settings) ==
  IF settings.enabled
  THEN TRUE
  ELSE LET overrides == OrEmpty(settings.siteOverrides)
       IN \E h \in Hosts : overrides[h] = "true"

\* ------------------------------------------------------- effects of a step
\* op: "set" (write of connectionState/connectedDevice to storage.local),
\* "status" (broadcast), "setBpm", "hr" (broadcast), "settingsChanged"
\* (broadcast), "new"/"close" (WebSocket created / close() called), "arm"
\* (setTimeout, n the delay, p the delay armed before in the episode),
\* "clear" (clearTimeout), "timeout" (the 60 s window was found exceeded),
\* "connect" (guard passed), "noop" (guard refused); and one marker per
\* handler that ran, with the value shouldBeConnected() resolved to in s.
Fx(op, s, d, n, p) == [op |-> op, s |-> s, d |-> d, n |-> n, p |-> p]
Did(op) == \E i \in 1..Len(fx) : fx[i].op = op
Bool(b) == IF b THEN "true" ELSE "false"

\* ------------------------------------------- the manager's state as a value
ConnectPcs == {"shouldBeConnected", "getSettings", "setConnecting",
               "setConnectingBadUrl", "setDisconnected"}

M == [ws |-> ws, isConnecting |-> isConnecting, connectionState |-> connectionState,
      currentBpm |-> currentBpm, reconnectDelay |-> reconnectDelay,
      reconnectTimer |-> reconnectTimer, reconnectStartTime |-> reconnectStartTime,
      autoReconnectEnabled |-> autoReconnectEnabled, readyState |-> readyState,
      timers |-> timers, now |-> now, local |-> local, connects |-> connects,
      timerCbs |-> timerCbs, handlers |-> handlers,
      fx |-> <<>>, lastArmed |-> lastArmed, paused |-> paused,
      wrote |-> FALSE, overflow |-> FALSE]

\* Date.now() is only used in differences, so times are kept relative to the
\* start of the running episode (to the present when none runs), and a timer
\* that is overdue is kept as due now.
Epoch(m) == IF m.reconnectStartTime # Null THEN m.reconnectStartTime ELSE m.now
Rebase(m, time) == IF time = Null THEN Null ELSE time - Epoch(m)
RebaseDue(m, due) == IF due # Null /\ due < m.now THEN Rebase(m, m.now) ELSE Rebase(m, due)

\* What a step of the worker sends to an open page: a storage.onChanged event
\* for every key of chrome.storage whose value changed, and the 'hr' runtime
\* message.  ('status' and 'settingsChanged' messages have no listener there.)
Event(type, state, bpm) ==
  [type |-> type, state |-> state, bpm |-> bpm, timestamp |-> Null]
Changes(m) ==
  LET hrs == SelectSeq(m.fx, LAMBDA e : e.op = "hr")
  IN (IF m.wrote THEN <<Event("sync", "", Null)>> ELSE <<>>)
     \o (IF m.local.connectionState # local.connectionState
         THEN <<Event("local.connectionState", m.local.connectionState, Null)>> ELSE <<>>)
     \o (IF m.local.currentBpm # local.currentBpm
         THEN <<Event("local.currentBpm", "", m.local.currentBpm)>> ELSE <<>>)
     \o [i \in 1..Len(hrs) |-> [Event("hr", "", hrs[i].n) EXCEPT !.timestamp = hrs[i].p]]

\* what is counted of a failure episode: the connect() calls of the timer
\* callback and of the alarm listener that passed the guard, and the alarms,
\* since the episode began (scheduleReconnect found no start time)
NoEpisode == [attempts |-> Null, alarms |-> Null]
Counted(m) ==
  LET did(op) == \E i \in 1..Len(m.fx) : m.fx[i].op = op
      began == \E i \in 1..Len(m.fx) : m.fx[i].op = "arm" /\ m.fx[i].p = 0
  IN  IF episode = NoEpisode THEN NoEpisode
      ELSE IF began THEN [attempts |-> 0, alarms |-> 0]
      ELSE [attempts |-> IF (did("timerCb") \/ did("alarm")) /\ did("connect")
                           THEN episode.attempts + 1 ELSE episode.attempts,
            alarms |-> IF did("alarm") THEN episode.alarms + 1 ELSE episode.alarms]

Commit(m) ==
  /\ ~m.overflow
  /\ LET sent == IF hostname = NoPage THEN inbox ELSE inbox \o Changes(m)
     IN /\ Len(sent) <= MaxInbox
        /\ inbox' = sent
  /\ UNCHANGED <<hostname, overlay, tasks, graph>>
  /\ ws' = m.ws
  /\ isConnecting' = m.isConnecting
  /\ connectionState' = m.connectionState
  /\ currentBpm' = m.currentBpm
  /\ reconnectDelay' = m.reconnectDelay
  /\ reconnectTimer' = m.reconnectTimer
  /\ reconnectStartTime' = Rebase(m, m.reconnectStartTime)
  /\ autoReconnectEnabled' = m.autoReconnectEnabled
  /\ readyState' = m.readyState
  /\ UNCHANGED capacity
  /\ timers' = [i \in TimerIds |-> RebaseDue(m, m.timers[i])]
  /\ now' = m.now - Epoch(m)
  /\ local' = m.local
  /\ connects' = m.connects
  /\ timerCbs' = m.timerCbs
  /\ handlers' = m.handlers
  /\ fx' = m.fx
  /\ lastArmed' = m.lastArmed
  /\ paused' = m.paused
  /\ episode' = Counted(m)
  /\ UNCHANGED accepting

Pending(m) ==
  m.connects["shouldBeConnected"] + m.connects["getSettings"]
    + m.connects["setConnecting"] + m.connects["setConnectingBadUrl"]
    + m.connects["setDisconnected"]

Min(a, b) == IF a < b THEN a ELSE b

\* ------------------------------------------------------------ background.js
\* setConnectionState: the assignment and the storage write are issued at the
\* call; the broadcast follows the write (its await) and reads no state.
setConnectionState(m, state, device) ==
  [m EXCEPT !.connectionState = state,
            !.local = [@ EXCEPT !.connectionState = state],
            !.fx = @ \o <<Fx("set", state, device, 0, 0), Fx("status", state, device, 0, 0)>>]

\* the synchronous head of connect(): the guard and the setting of the flag
InFlight(m) ==
  \/ m.isConnecting
  \/ /\ m.ws # NoSocket
     /\ m.readyState[m.ws] \in {"OPEN", "CONNECTING"}

\* a variant of connect() whose guard looks at the flag only
connect_IgnoresSocket(m) ==
  IF m.isConnecting
  THEN [m EXCEPT !.fx = Append(@, Fx("noop", "", NoDevice, 0, 0))]
  ELSE [m EXCEPT !.isConnecting = TRUE,
                 !.connects["shouldBeConnected"] = @ + 1,
                 !.overflow = @ \/ Pending(m) >= capacity,
                 !.fx = Append(@, Fx("connect", "", NoDevice, 0, 0))]

connect(m) ==
  IF InFlight(m)
  THEN [m EXCEPT !.fx = Append(@, Fx("noop", "", NoDevice, 0, 0))]
  ELSE [m EXCEPT !.isConnecting = TRUE,
                 !.connects["shouldBeConnected"] = @ + 1,
                 !.overflow = @ \/ Pending(m) >= capacity,
                 !.fx = Append(@, Fx("connect", "", NoDevice, 0, 0))]

FreeTimers(m) == {i \in TimerIds : m.timers[i] = Null}
FreeSockets(m) == {s \in DOMAIN m.readyState : m.readyState[s] = "CLOSED"}
Lowest(S) == CHOOSE x \in S : \A y \in S : x <= y

\* clearTimeout(reconnectTimer) when the handle is set
clearReconnectTimer(m) ==
  IF m.reconnectTimer # Null
  THEN [m EXCEPT !.timers[m.reconnectTimer] = Null,
                 !.fx = Append(@, Fx("clear", "", NoDevice, m.reconnectTimer, 0))]
  ELSE m

scheduleReconnect_NoCancel(m) ==
  IF ~m.autoReconnectEnabled
  THEN m
  ELSE LET fresh == m.reconnectStartTime = Null
           start == IF fresh THEN m.now ELSE m.reconnectStartTime
           prev  == IF fresh THEN 0 ELSE m.lastArmed
       IN IF m.now - start > RECONNECT_TIMEOUT
          THEN [m EXCEPT !.autoReconnectEnabled = FALSE,
                         !.reconnectStartTime = Null,
                         !.lastArmed = 0,
                         !.paused = TRUE,
                         !.fx = Append(@, Fx("timeout", "", NoDevice, m.now - start, 0))]
          ELSE LET free == FreeTimers(m)
                   id == IF free = {} THEN 1 ELSE Lowest(free)
               IN [m EXCEPT !.reconnectStartTime = start,
                            !.reconnectTimer = id,
                            !.timers[id] = m.now + m.reconnectDelay,
                            !.lastArmed = m.reconnectDelay,
                            !.overflow = @ \/ free = {},
                            !.fx = Append(@, Fx("arm", "", NoDevice, m.reconnectDelay, prev))]

\* line 140-169
scheduleReconnect(m) ==
  IF ~m.autoReconnectEnabled
  THEN m
  ELSE LET fresh == m.reconnectStartTime = Null
           start == IF fresh THEN m.now ELSE m.reconnectStartTime
           prev  == IF fresh THEN 0 ELSE m.lastArmed
       IN IF m.now - start > RECONNECT_TIMEOUT
          THEN [m EXCEPT !.autoReconnectEnabled = FALSE,
                         !.reconnectStartTime = Null,
                         !.lastArmed = 0,
                         !.paused = TRUE,
                         !.fx = Append(@, Fx("timeout", "", NoDevice, m.now - start, 0))]
          ELSE LET c == clearReconnectTimer(m)
                   free == FreeTimers(c)
                   id == IF free = {} THEN 1 ELSE Lowest(free)
               IN [c EXCEPT !.reconnectStartTime = start,
                            !.reconnectTimer = id,
                            !.timers[id] = m.now + m.reconnectDelay,
                            !.lastArmed = m.reconnectDelay,
                            !.overflow = @ \/ free = {},
                            !.fx = Append(@, Fx("arm", "", NoDevice, m.reconnectDelay, prev))]

\* a variant of disconnect() that drops the reference without closing
disconnect_LeavesSocket(m) ==
  LET c == IF m.reconnectTimer # Null
           THEN [clearReconnectTimer(m) EXCEPT !.reconnectTimer = Null]
           ELSE m
  IN [c EXCEPT !.ws = NoSocket,
               !.isConnecting = FALSE,
               !.connectionState = "disconnected",
               !.currentBpm = Null]

disconnect(m) ==
  LET c == IF m.reconnectTimer # Null
           THEN [clearReconnectTimer(m) EXCEPT !.reconnectTimer = Null]
           ELSE m
      d == IF c.ws # NoSocket
           THEN [c EXCEPT !.readyState[c.ws] =
                             IF @ \in {"CONNECTING", "OPEN"} THEN "CLOSING" ELSE @,
                          !.ws = NoSocket,
                          !.fx = Append(@, Fx("close", "", NoDevice, c.ws, 0))]
           ELSE c
  IN [d EXCEPT !.isConnecting = FALSE,
               !.connectionState = "disconnected",
               !.currentBpm = Null]

\* ------------------------------------------------- inputs of the environment
Bpms == {72}
\* what the upstream source sends: a status message, a data message, JSON with
\* neither key ("other"), or text that is no JSON ("garbage")
Msg(kind, status, device, bpm) ==
  [kind |-> kind, status |-> status, device |-> device, bpm |-> bpm,
   timestamp |-> Null]
Messages ==
  {Msg("status", "scanning", NoDevice, Null),
   Msg("status", "connected", "H10", Null),
   Msg("status", "disconnected", NoDevice, Null)}
    \cup {Msg("status", "connected", "H10", b) : b \in Bpms}
    \cup {Msg("bpm", "", NoDevice, b) : b \in Bpms}
    \cup {Msg("other", "", NoDevice, Null), Msg("garbage", "", NoDevice, Null)}

\* the settings the user's pages store while the manager runs
StoredSettings(enabled, serverUrl, displayMode, siteOverrides) ==
  [PULSE_DEFAULTS EXCEPT !.enabled = enabled, !.serverUrl = serverUrl,
                         !.displayMode = displayMode, !.siteOverrides = siteOverrides]
ManagerSettings ==
  {PULSE_DEFAULTS,
   StoredSettings(TRUE, "not a url", "standard", EmptyOverrides),
   StoredSettings(FALSE, "ws://localhost:8765", "standard", EmptyOverrides)}
\* every value of `enabled` with every override map the settings pages store
SettingsInputs ==
  {StoredSettings(e, "ws://localhost:8765", "standard", o) :
     e \in BOOLEAN, o \in [Hosts -> OverrideVals]}
\* the settings stored while a page on a.com is open: shown, shown in
\* another display mode, hidden on a.com
SurfaceSettings ==
  {StoredSettings(TRUE, "ws://localhost:8765", "standard", EmptyOverrides),
   StoredSettings(TRUE, "ws://localhost:8765", "graph", EmptyOverrides),
   StoredSettings(TRUE, "ws://localhost:8765", "standard",
                  [EmptyOverrides EXCEPT !["a.com"] = "false"])}
\* what the source sends while a page is open
SurfaceMessages ==
  {Msg("status", "connected", "H10", Null), Msg("status", "disconnected", NoDevice, Null)}
    \cup {Msg("bpm", "", NoDevice, b) : b \in Bpms}

\* ------------------------------------------------------------------- Init
\* The state once the worker's script has run: its last statement called
\* connect(), which passed the guard and waits for shouldBeConnected().
Start(nSockets, nConnects, stored) ==
  /\ ws = NoSocket
  /\ isConnecting = TRUE
  /\ connectionState = "disconnected"
  /\ currentBpm = Null
  /\ reconnectDelay = INITIAL_DELAY
  /\ reconnectTimer = Null
  /\ reconnectStartTime = Null
  /\ autoReconnectEnabled = TRUE
  /\ readyState = [s \in 1..nSockets |-> "CLOSED"]
  /\ capacity = nConnects
  /\ timers = [i \in TimerIds |-> Null]
  /\ now = 0
  /\ sync \in stored
  /\ local = [connectionState |-> "disconnected", currentBpm |-> Null]
  /\ connects = [pc \in ConnectPcs |-> IF pc = "shouldBeConnected" THEN 1 ELSE 0]
  /\ timerCbs = 0
  /\ handlers = 0
  /\ fx = <<Fx("connect", "", NoDevice, 0, 0)>>
  /\ lastArmed = 0
  /\ paused = FALSE

\* ------------------------------------------------------------- PulseGraph
\* overlay/graph.js line 6-14: the object after its constructor (the canvas
\* and what is drawn on it are not followed)
PulseGraph(duration) ==
  [duration |-> duration, points |-> <<>>, minBpm |-> 40, maxBpm |-> 200]
\* no PulseGraph has been constructed
NoGraph == [duration |-> 0, points |-> <<>>, minBpm |-> 0, maxBpm |-> 0]

Max(a, b) == IF a > b THEN a ELSE b
Least(S) == CHOOSE x \in S : \A y \in S : x <= y
Greatest(S) == CHOOSE x \in S : \A y \in S : x >= y

\* graph.js line 22: `timestamp || now` (an absent timestamp and 0 are falsy)
Stamp(timestamp, t) == IF timestamp \in {Null, 0} THEN t ELSE timestamp

addPoint_KeepsCutoff(g, bpm, timestamp, t) ==
  LET pushed == Append(g.points, [bpm |-> bpm, timestamp |-> Stamp(timestamp, t)])
      cutoff == t - g.duration * 1000
      kept == SelectSeq(pushed, LAMBDA p : p.timestamp >= cutoff)
      bpms == {Max(40, Min(220, kept[i].bpm)) : i \in 1..Len(kept)}
  IN  IF Len(kept) > 0
        THEN [g EXCEPT !.points = kept,
                       !.minBpm = Max(40, Least(bpms) - 10),
                       !.maxBpm = Min(220, Greatest(bpms) + 10)]
        ELSE [g EXCEPT !.points = kept]

addPoint_Unclamped(g, bpm, timestamp, t) ==
  LET pushed == Append(g.points, [bpm |-> bpm, timestamp |-> Stamp(timestamp, t)])
      cutoff == t - g.duration * 1000
      kept == SelectSeq(pushed, LAMBDA p : p.timestamp > cutoff)
      bpms == {kept[i].bpm : i \in 1..Len(kept)}
  IN  IF Len(kept) > 0
        THEN [g EXCEPT !.points = kept,
                       !.minBpm = Max(40, Least(bpms) - 10),
                       !.maxBpm = Min(220, Greatest(bpms) + 10)]
        ELSE [g EXCEPT !.points = kept]

addPoint_NoMargin(g, bpm, timestamp, t) ==
  LET pushed == Append(g.points, [bpm |-> bpm, timestamp |-> Stamp(timestamp, t)])
      cutoff == t - g.duration * 1000
      kept == SelectSeq(pushed, LAMBDA p : p.timestamp > cutoff)
      bpms == {Max(40, Min(220, kept[i].bpm)) : i \in 1..Len(kept)}
  IN  IF Len(kept) > 0
        THEN [g EXCEPT !.points = kept,
                       !.minBpm = Max(40, Least(bpms)),
                       !.maxBpm = Min(220, Greatest(bpms))]
        ELSE [g EXCEPT !.points = kept]

\* graph.js line 19-37, called at Date.now() = t: the point is pushed, the
\* points at or before the cutoff are dropped, and the axis follows the
\* clamped values of what is left
addPoint(g, bpm, timestamp, t) ==
  LET pushed == Append(g.points, [bpm |-> bpm, timestamp |-> Stamp(timestamp, t)])
      cutoff == t - g.duration * 1000
      kept == SelectSeq(pushed, LAMBDA p : p.timestamp > cutoff)
      bpms == {Max(40, Min(220, kept[i].bpm)) : i \in 1..Len(kept)}
  IN  IF Len(kept) > 0
        THEN [g EXCEPT !.points = kept,
                       !.minBpm = Max(40, Least(bpms) - 10),
                       !.maxBpm = Min(220, Greatest(bpms) + 10)]
        ELSE [g EXCEPT !.points = kept]

\* graph.js line 105-108
clear(g) == [g EXCEPT !.points = <<>>]

\* ---------------------------------------------------------- PulseOverlay
\* the object after its constructor (part_001 line 7-22), with what it has
\* registered with the page and the browser: `nodes` containers in the
\* document, and listeners per kind.  `settings` is <<>> for null.  `built`
\* is what the mounted node was made from and `clock` the page's Date.now();
\* `buffer` is the PulseGraph of this.graph, followed where `follows` says so
\* (it stays NoGraph otherwise).
Placeholder == "--"
NoElement == "none"
Constructed ==
  [settings |-> <<>>, container |-> FALSE, graph |-> FALSE,
   currentBpm |-> Null, connectionState |-> "disconnected",
   unsubscribeState |-> FALSE, unsubscribeHR |-> FALSE, unsubscribeSettings |-> FALSE,
   display |-> NoElement, statusClass |-> NoElement,
   nodes |-> 0, stateListeners |-> 0, hrListeners |-> 0, settingsListeners |-> 0,
   destroyed |-> FALSE,
   built |-> <<>>, buffer |-> NoGraph, clock |-> 0, follows |-> FALSE]

\* a handler of the page at rest or suspended at an await: `old` is what
\* handleSettingsChange() keeps of this.settings, `snap` the snapshot the
\* store has already read for a getState() that has not resumed yet
Idle == [pc |-> "idle", old |-> <<>>, snap |-> <<>>]


\* no page is open
NoPageOpen ==
  /\ hostname = NoPage
  /\ overlay = Constructed
  /\ tasks = [t \in 1..MaxTasks |-> Idle]
  /\ inbox = <<>>
  /\ graph = NoGraph

\* a page is open and its content script ran (part_000 line 29-30): the
\* overlay is constructed and init() waits for getSettings()
PageOpened(hosts) ==
  /\ hostname \in hosts
  /\ overlay = Constructed
  /\ tasks = [t \in 1..MaxTasks |->
                IF t = 1 THEN [pc |-> "init.getSettings", old |-> <<>>, snap |-> <<>>] ELSE Idle]
  /\ inbox = <<>>
  /\ graph = NoGraph

Uncounted == episode = NoEpisode
\* the source may refuse or drop a connection at any time
Unpromised == accepting = FALSE
Init == Start(MaxSockets, MaxConnects, ManagerSettings) /\ NoPageOpen /\ Uncounted /\ Unpromised
InitRace == Start(RaceSockets, RaceConnects, ManagerSettings) /\ NoPageOpen /\ Uncounted /\ Unpromised
InitBackoff == Start(RaceSockets, MaxConnects, ManagerSettings) /\ NoPageOpen /\ Uncounted /\ Unpromised
InitPredicates ==
  Start(MaxSockets, MaxConnects, SettingsInputs) /\ PageOpened(Hosts) /\ Uncounted /\ Unpromised
InitSurface ==
  Start(MaxSockets, MaxConnects, SurfaceSettings) /\ PageOpened({"a.com"}) /\ Uncounted /\ Unpromised
\* the worker started with a source that accepts no connection; the episode's
\* attempts are counted
InitEpisode ==
  /\ Start(MaxSockets, MaxConnects, ManagerSettings)
  /\ NoPageOpen
  /\ episode = [attempts |-> 0, alarms |-> 0]
  /\ Unpromised

\* the worker started with the connection enabled or disabled, the source
\* refusing or dropping connections until it recovers
LiveSettings ==
  {PULSE_DEFAULTS, StoredSettings(FALSE, "ws://localhost:8765", "standard", EmptyOverrides)}
InitLive ==
  /\ Start(RaceSockets, MaxConnects, LiveSettings)
  /\ NoPageOpen
  /\ Uncounted
  /\ Unpromised

\* a page on a.com whose overlay's graph buffer is followed: the surface is
\* shown in graph mode and init() waits for getSettings()
Followed == [Constructed EXCEPT !.follows = TRUE]
GraphShown == StoredSettings(TRUE, "ws://localhost:8765", "graph", EmptyOverrides)
PageFollowed ==
  /\ hostname = "a.com"
  /\ overlay = Followed
  /\ tasks = [t \in 1..MaxTasks |->
                IF t = 1 THEN [pc |-> "init.getSettings", old |-> <<>>, snap |-> <<>>] ELSE Idle]
  /\ inbox = <<>>
  /\ graph = NoGraph
\* settings under which the surface stays shown: each differs from GraphShown
\* in one field createOverlay reads, the last in a field it does not read
RemountSettings ==
  {GraphShown,
   [GraphShown EXCEPT !.displayMode = "standard"],
   [GraphShown EXCEPT !.position = "top-left"],
   [GraphShown EXCEPT !.size = "large"],
   [GraphShown EXCEPT !.opacity = "0.5"],
   [GraphShown EXCEPT !.graphDuration = 30],
   [GraphShown EXCEPT !.graphMinBpm = 50]}
InitRemount ==
  /\ Start(MaxSockets, MaxConnects, {GraphShown})
  /\ PageFollowed
  /\ Uncounted /\ Unpromised

\* the same page with its clock running: Date.now() of the page starts at
\* ClockStart and the upstream stamps a sample when it is measured, Latency
\* before the page sees it
Latency == 1 * 1000
ClockStart == 2 * Latency
MaxClock == ClockStart + 2 * Latency
InitFeed ==
  /\ Start(MaxSockets, MaxConnects, {GraphShown})
  /\ hostname = "a.com"
  /\ overlay = [Followed EXCEPT !.clock = ClockStart]
  /\ tasks = [t \in 1..MaxTasks |->
                IF t = 1 THEN [pc |-> "init.getSettings", old |-> <<>>, snap |-> <<>>] ELSE Idle]
  /\ inbox = <<>>
  /\ graph = NoGraph
  /\ Uncounted /\ Unpromised

\* the graph of a page's overlay just constructed (part_001 line 127), with
\* a stored graphDuration; the worker idle
GraphDurations == {30, 60}
InitGraph ==
  /\ Start(MaxSockets, MaxConnects, {PULSE_DEFAULTS})
  /\ Uncounted /\ Unpromised
  /\ hostname = "a.com"
  /\ overlay = Constructed
  /\ tasks = [t \in 1..MaxTasks |-> Idle]
  /\ inbox = <<>>
  /\ \E duration \in GraphDurations : graph = PulseGraph(duration)

Resume(m, pc) == [m EXCEPT !.connects[pc] = @ - 1]

\* -------------------------------------------------- connect(), after the guard
\* line 71-76: the continuation after `await shouldBeConnected()`
ConnectShould ==
  /\ connects["shouldBeConnected"] > 0
  /\ LET shouldConnect == shouldBeConnected(sync)
         m == [Resume(M, "shouldBeConnected") EXCEPT
                 !.fx = Append(@, Fx("resumed", Bool(shouldConnect), NoDevice, 0, 0))]
     IN IF ~shouldConnect
        THEN Commit([m EXCEPT !.isConnecting = FALSE])
        ELSE Commit([m EXCEPT !.connects["getSettings"] = @ + 1])
  /\ UNCHANGED sync

\* line 78-80: the continuation after `await getSettings()`
ConnectSettings ==
  /\ connects["getSettings"] > 0
  /\ LET m == setConnectionState(Resume(M, "getSettings"), "connecting", NoDevice)
         pc == IF UrlParses(sync.serverUrl) THEN "setConnecting" ELSE "setConnectingBadUrl"
     IN Commit([m EXCEPT !.connects[pc] = @ + 1])
  /\ UNCHANGED sync

\* line 82-127: the continuation after `await setConnectionState('connecting')`
ConnectSocket ==
  /\ connects["setConnecting"] > 0
  /\ LET m == Resume(M, "setConnecting")
         free == FreeSockets(m)
         s == IF free = {} THEN 1 ELSE Lowest(free)
     IN Commit([m EXCEPT !.ws = s,
                         !.readyState[s] = "CONNECTING",
                         !.overflow = @ \/ free = {},
                         !.fx = Append(@, Fx("new", "", NoDevice, s, 0))])
  /\ UNCHANGED sync

\* line 83, 129-131: new WebSocket throws; the catch block up to its await
ConnectThrows ==
  /\ connects["setConnectingBadUrl"] > 0
  /\ LET m == Resume(M, "setConnectingBadUrl")
         c == setConnectionState([m EXCEPT !.isConnecting = FALSE], "disconnected", NoDevice)
     IN Commit([c EXCEPT !.connects["setDisconnected"] = @ + 1])
  /\ UNCHANGED sync

\* line 132: the catch block after `await setConnectionState('disconnected')`
ConnectCaught ==
  /\ connects["setDisconnected"] > 0
  /\ Commit(scheduleReconnect(Resume(M, "setDisconnected")))
  /\ UNCHANGED sync

\* ------------------------------------------------------------ socket events
OnOpen_KeepsFlag(s) ==
  /\ s \in DOMAIN readyState
  /\ readyState[s] = "CONNECTING"
  /\ LET m == [M EXCEPT !.readyState[s] = "OPEN",
                        !.reconnectDelay = INITIAL_DELAY,
                        !.reconnectStartTime = Null,
                        !.autoReconnectEnabled = TRUE,
                        !.lastArmed = 0,
                        !.fx = Append(@, Fx("open", "", NoDevice, s, 0))]
     IN Commit(setConnectionState(m, "connected", NoDevice))
  /\ UNCHANGED sync

\* line 85-93
OnOpen(s) ==
  /\ s \in DOMAIN readyState
  /\ readyState[s] = "CONNECTING"
  /\ LET m == [M EXCEPT !.readyState[s] = "OPEN",
                        !.isConnecting = FALSE,
                        !.reconnectDelay = INITIAL_DELAY,
                        !.reconnectStartTime = Null,
                        !.autoReconnectEnabled = TRUE,
                        !.lastArmed = 0,
                        !.fx = Append(@, Fx("open", "", NoDevice, s, 0))]
     IN Commit(setConnectionState(m, "connected", NoDevice))
  /\ UNCHANGED sync

OnMessage_StatusClearsValue(s, msg) ==
  /\ s \in DOMAIN readyState
  /\ readyState[s] = "OPEN"
  /\ LET m == [M EXCEPT !.fx = Append(@, Fx("message", msg.kind, NoDevice, s, 0))]
     IN IF msg.kind = "status"
        THEN Commit(setConnectionState([m EXCEPT !.currentBpm = Null],
                                       msg.status, msg.device))
        ELSE IF msg.kind = "bpm"
        THEN Commit([m EXCEPT !.currentBpm = msg.bpm,
                              !.local.currentBpm = msg.bpm,
                              !.fx = @ \o <<Fx("setBpm", "", NoDevice, msg.bpm, 0),
                                            Fx("hr", "", NoDevice, msg.bpm, msg.timestamp)>>])
        ELSE Commit(m)
  /\ UNCHANGED sync

OnMessage_FatalWhenMalformed(s, msg) ==
  /\ s \in DOMAIN readyState
  /\ readyState[s] = "OPEN"
  /\ LET m == [M EXCEPT !.fx = Append(@, Fx("message", msg.kind, NoDevice, s, 0))]
     IN IF msg.kind = "status"
        THEN Commit(setConnectionState(m, msg.status, msg.device))
        ELSE IF msg.kind = "bpm"
        THEN Commit([m EXCEPT !.currentBpm = msg.bpm,
                              !.local.currentBpm = msg.bpm,
                              !.fx = @ \o <<Fx("setBpm", "", NoDevice, msg.bpm, 0),
                                            Fx("hr", "", NoDevice, msg.bpm, msg.timestamp)>>])
        ELSE Commit(setConnectionState([m EXCEPT !.readyState[s] = "CLOSING"],
                                       "disconnected", NoDevice))
  /\ UNCHANGED sync

\* line 95-116
OnMessage(s, msg) ==
  /\ s \in DOMAIN readyState
  /\ readyState[s] = "OPEN"
  /\ LET m == [M EXCEPT !.fx = Append(@, Fx("message", msg.kind, NoDevice, s, 0))]
     IN IF msg.kind = "status"
        THEN Commit(setConnectionState(m, msg.status, msg.device))
        ELSE IF msg.kind = "bpm"
        THEN Commit([m EXCEPT !.currentBpm = msg.bpm,
                              !.local.currentBpm = msg.bpm,
                              !.fx = @ \o <<Fx("setBpm", "", NoDevice, msg.bpm, 0),
                                            Fx("hr", "", NoDevice, msg.bpm, msg.timestamp)>>])
        ELSE Commit(m)
  /\ UNCHANGED sync

OnClose_NoRetry(s) ==
  /\ s \in DOMAIN readyState
  /\ readyState[s] \in {"CONNECTING", "OPEN", "CLOSING"}
  /\ LET m == [M EXCEPT !.readyState[s] = "CLOSED",
                        !.ws = NoSocket,
                        !.isConnecting = FALSE,
                        !.fx = Append(@, Fx("onclose", "", NoDevice, s, 0))]
     IN Commit(setConnectionState(m, "disconnected", NoDevice))
  /\ UNCHANGED sync

\* line 118-123
OnClose(s) ==
  /\ s \in DOMAIN readyState
  /\ readyState[s] \in {"CONNECTING", "OPEN", "CLOSING"}
  /\ LET m == [M EXCEPT !.readyState[s] = "CLOSED",
                        !.ws = NoSocket,
                        !.isConnecting = FALSE,
                        !.fx = Append(@, Fx("onclose", "", NoDevice, s, 0))]
     IN Commit(scheduleReconnect(setConnectionState(m, "disconnected", NoDevice)))
  /\ UNCHANGED sync

\* ------------------------------------------------------- the reconnect timer
\* line 161-163: the timer fires; the callback runs to its await
TimerFire(id) ==
  /\ timers[id] # Null
  /\ timers[id] <= now
  /\ Commit([M EXCEPT !.timers[id] = Null,
                      !.reconnectTimer = Null,
                      !.timerCbs = @ + 1,
                      !.overflow = @ \/ timerCbs >= MaxTimerCbs,
                      !.fx = Append(@, Fx("fire", "", NoDevice, id, 0))])
  /\ UNCHANGED sync

TimerCallback_SkipsPredicate ==
  /\ timerCbs > 0
  /\ LET shouldConnect == shouldBeConnected(sync)
         m == [M EXCEPT !.timerCbs = @ - 1,
                        !.fx = Append(@, Fx("timerCb", Bool(shouldConnect), NoDevice, 0, 0))]
     IN IF m.autoReconnectEnabled
        THEN Commit([connect(m) EXCEPT
                       !.reconnectDelay = Min(m.reconnectDelay * 2, RECONNECT_MAX_DELAY)])
        ELSE Commit(m)
  /\ UNCHANGED sync

\* line 164-167: the callback after `await shouldBeConnected()`
TimerCallback ==
  /\ timerCbs > 0
  /\ LET shouldConnect == shouldBeConnected(sync)
         m == [M EXCEPT !.timerCbs = @ - 1,
                        !.fx = Append(@, Fx("timerCb", Bool(shouldConnect), NoDevice, 0, 0))]
     IN IF shouldConnect /\ m.autoReconnectEnabled
        THEN Commit([connect(m) EXCEPT
                       !.reconnectDelay = Min(m.reconnectDelay * 2, RECONNECT_MAX_DELAY)])
        ELSE Commit(m)
  /\ UNCHANGED sync

\* a variant of the alarm listener without the autoReconnectEnabled test
KeepAlive_IgnoresPause ==
  /\ LET m == [M EXCEPT !.fx = Append(@, Fx("alarm", "", NoDevice, 0, 0))]
     IN IF m.ws = NoSocket \/ m.readyState[m.ws] # "OPEN"
        THEN Commit(connect(m))
        ELSE Commit(m)
  /\ UNCHANGED sync

\* line 277-284
KeepAlive ==
  /\ LET m == [M EXCEPT !.fx = Append(@, Fx("alarm", "", NoDevice, 0, 0))]
     IN IF m.autoReconnectEnabled /\ (m.ws = NoSocket \/ m.readyState[m.ws] # "OPEN")
        THEN Commit(connect(m))
        ELSE Commit(m)
  /\ UNCHANGED sync

\* ------------------------------------------------------------ user requests
ReconnectMsg_OnlyDisconnects ==
  /\ LET m == [M EXCEPT !.fx = Append(@, Fx("reconnect", "", NoDevice, 0, 0))]
         d == [disconnect(m) EXCEPT !.reconnectDelay = INITIAL_DELAY,
                                    !.reconnectStartTime = Null,
                                    !.autoReconnectEnabled = TRUE,
                                    !.lastArmed = 0,
                                    !.paused = FALSE]
     IN Commit(d)
  /\ UNCHANGED sync

\* line 203-210
ReconnectMsg ==
  /\ LET m == [M EXCEPT !.fx = Append(@, Fx("reconnect", "", NoDevice, 0, 0))]
         d == [disconnect(m) EXCEPT !.reconnectDelay = INITIAL_DELAY,
                                    !.reconnectStartTime = Null,
                                    !.autoReconnectEnabled = TRUE,
                                    !.lastArmed = 0,
                                    !.paused = FALSE]
     IN Commit(connect(d))
  /\ UNCHANGED sync

\* line 248-256: a page stored new settings; the listener calls
\* handleSettingsChange, which runs to its await
StorageChanged(settings) ==
  /\ settings # sync
  /\ sync' = settings
  /\ Commit([M EXCEPT !.handlers = @ + 1,
                      !.wrote = TRUE,
                      !.overflow = @ \/ handlers >= MaxHandlers,
                      !.fx = Append(@, Fx("onChanged", "", NoDevice, 0, 0))])

HandleSettingsChange_Reconnects ==
  /\ handlers > 0
  /\ LET shouldConnect == shouldBeConnected(sync)
         m == [M EXCEPT !.handlers = @ - 1,
                        !.fx = Append(@, Fx("settings", Bool(shouldConnect), NoDevice, 0, 0))]
         published == Fx("settingsChanged", "", NoDevice, 0, 0)
     IN IF ~shouldConnect /\ m.connectionState # "disconnected"
        THEN Commit([disconnect(m) EXCEPT !.fx = Append(@, published)])
        ELSE IF shouldConnect /\ m.connectionState = "disconnected"
        THEN Commit(connect([m EXCEPT !.reconnectDelay = INITIAL_DELAY,
                                      !.reconnectStartTime = Null,
                                      !.autoReconnectEnabled = TRUE,
                                      !.lastArmed = 0]))
        ELSE Commit([disconnect(m) EXCEPT !.fx = Append(@, published)])
  /\ UNCHANGED sync

\* line 233-244: handleSettingsChange after `await shouldBeConnected()`
HandleSettingsChange ==
  /\ handlers > 0
  /\ LET shouldConnect == shouldBeConnected(sync)
         m == [M EXCEPT !.handlers = @ - 1,
                        !.fx = Append(@, Fx("settings", Bool(shouldConnect), NoDevice, 0, 0))]
         published == Fx("settingsChanged", "", NoDevice, 0, 0)
     IN IF ~shouldConnect /\ m.connectionState # "disconnected"
        THEN Commit([disconnect(m) EXCEPT !.fx = Append(@, published)])
        ELSE IF shouldConnect /\ m.connectionState = "disconnected"
        THEN Commit(connect([m EXCEPT !.reconnectDelay = INITIAL_DELAY,
                                      !.reconnectStartTime = Null,
                                      !.autoReconnectEnabled = TRUE,
                                      !.lastArmed = 0]))
        ELSE Commit([m EXCEPT !.fx = Append(@, published)])
  /\ UNCHANGED sync

\* ------------------------------------------------ PulseOverlay, its methods
\* a variant of shouldShow that does not honour an override of false
shouldShow_IgnoresDisable(o, host) ==
  LET override == o.settings[1].siteOverrides[host]
  IN IF override = "true" THEN TRUE ELSE o.settings[1].enabled

\* part_001 line 59-75
shouldShow(o, host) ==
  LET override == o.settings[1].siteOverrides[host]
  IN IF override = "true"
     THEN TRUE
     ELSE IF override = "false"
     THEN FALSE
     ELSE o.settings[1].enabled

\* part_001 line 93-94, 105, 117, 127: what createOverlay reads of the settings
Layout(settings) ==
  [displayMode |-> settings.displayMode, position |-> settings.position,
   size |-> settings.size, opacity |-> settings.opacity,
   graphDuration |-> settings.graphDuration]

\* part_001 line 80-132: the new node shows '--' and status-disconnected
createOverlay(o) ==
  [o EXCEPT !.container = TRUE,
            !.nodes = @ + 1,
            !.statusClass = "disconnected",
            !.display = Placeholder,
            !.built = <<Layout(o.settings[1])>>,
            !.graph = o.settings[1].displayMode = "graph",
            !.buffer = IF o.follows /\ o.settings[1].displayMode = "graph"
                       THEN PulseGraph(o.settings[1].graphDuration)
                       ELSE NoGraph]

\* part_001 line 254-270, shared/state.js line 25-36 and 44-71
setupListeners(o) ==
  [o EXCEPT !.unsubscribeState = TRUE,
            !.stateListeners = @ + 1,
            !.unsubscribeHR = TRUE,
            !.hrListeners = @ + 1]

\* a variant of removeOverlay that keeps the sample subscription
removeOverlay_KeepsSampleListener(o) ==
  [o EXCEPT !.stateListeners = IF o.unsubscribeState THEN @ - 1 ELSE @,
            !.unsubscribeState = FALSE,
            !.nodes = IF o.container THEN @ - 1 ELSE @,
            !.container = FALSE,
            !.graph = FALSE,
            !.built = <<>>,
            !.buffer = NoGraph,
            !.display = NoElement,
            !.statusClass = NoElement]

\* a variant of removeOverlay that forgets the node without removing it
removeOverlay_LeavesNode(o) ==
  [o EXCEPT !.stateListeners = IF o.unsubscribeState THEN @ - 1 ELSE @,
            !.unsubscribeState = FALSE,
            !.hrListeners = IF o.unsubscribeHR THEN @ - 1 ELSE @,
            !.unsubscribeHR = FALSE,
            !.container = FALSE,
            !.graph = FALSE,
            !.built = <<>>,
            !.buffer = NoGraph,
            !.display = NoElement,
            !.statusClass = NoElement]

\* a variant of removeOverlay that releases the settings subscription too
removeOverlay_DropsSettings(o) ==
  [o EXCEPT !.stateListeners = IF o.unsubscribeState THEN @ - 1 ELSE @,
            !.unsubscribeState = FALSE,
            !.hrListeners = IF o.unsubscribeHR THEN @ - 1 ELSE @,
            !.unsubscribeHR = FALSE,
            !.settingsListeners = IF o.unsubscribeSettings THEN @ - 1 ELSE @,
            !.unsubscribeSettings = FALSE,
            !.nodes = IF o.container THEN @ - 1 ELSE @,
            !.container = FALSE,
            !.graph = FALSE,
            !.built = <<>>,
            !.buffer = NoGraph,
            !.display = NoElement,
            !.statusClass = NoElement]

\* part_001 line 320-347
removeOverlay(o) ==
  [o EXCEPT !.stateListeners = IF o.unsubscribeState THEN @ - 1 ELSE @,
            !.unsubscribeState = FALSE,
            !.hrListeners = IF o.unsubscribeHR THEN @ - 1 ELSE @,
            !.unsubscribeHR = FALSE,
            !.nodes = IF o.container THEN @ - 1 ELSE @,
            !.container = FALSE,
            !.graph = FALSE,
            !.built = <<>>,
            !.buffer = NoGraph,
            !.display = NoElement,
            !.statusClass = NoElement]

\* part_001 line 376-385
destroy(o) ==
  [removeOverlay(o) EXCEPT
     !.settingsListeners = IF o.unsubscribeSettings THEN @ - 1 ELSE @,
     !.unsubscribeSettings = FALSE]

\* a variant of updateDisplay that shows the cached value in every phase
updateDisplay_ShowsCached(o) ==
  IF ~o.container
  THEN o
  ELSE [o EXCEPT !.statusClass = o.connectionState,
                 !.display = IF o.currentBpm # Null
                             THEN ToString(o.currentBpm)
                             ELSE Placeholder]

\* part_001 line 352-371: textContent takes the number as a string
updateDisplay(o) ==
  IF ~o.container
  THEN o
  ELSE [o EXCEPT !.statusClass = o.connectionState,
                 !.display = IF o.currentBpm # Null /\ o.connectionState = "connected"
                             THEN ToString(o.currentBpm)
                             ELSE Placeholder]

\* shared/state.js line 11-18, on the store as it is when the read resolves
getState(store) ==
  [connectionState |-> store.connectionState,
   currentBpm |-> IF store.currentBpm \in {Null, 0} THEN Null ELSE store.currentBpm]

\* part_001 line 43-52 and 303-314: the snapshot is taken over, then shown
ShowSnapshot(o, state) ==
  updateDisplay([o EXCEPT !.connectionState = state.connectionState,
                          !.currentBpm = IF state.currentBpm # Null
                                         THEN state.currentBpm ELSE @,
                          !.buffer = IF state.currentBpm # Null /\ o.graph /\ o.follows
                                     THEN addPoint(@, state.currentBpm, o.clock, o.clock)
                                     ELSE @])

\* part_001 line 262-269: the sample callback
OnSample(o, bpm, timestamp) ==
  LET shown == updateDisplay([o EXCEPT !.currentBpm = bpm])
  IN  IF o.graph /\ o.follows
      THEN [shown EXCEPT !.buffer = addPoint(@, bpm, timestamp, o.clock)]
      ELSE shown

FreeTasks == {t \in DOMAIN tasks : tasks[t].pc = "idle"}

\* ------------------------------------------------ PulseOverlay, its handlers
\* part_001 line 28-43: init() after `await PulseState.getSettings()`
OverlayInit(t) ==
  /\ tasks[t].pc = "init.getSettings"
  /\ LET o == [overlay EXCEPT !.settings = <<sync>>,
                              !.unsubscribeSettings = TRUE,
                              !.settingsListeners = @ + 1]
     IN IF ~shouldShow(o, hostname)
        THEN /\ overlay' = o
             /\ tasks' = [tasks EXCEPT ![t] = Idle]
        ELSE /\ overlay' = setupListeners(createOverlay(o))
             /\ tasks' = [tasks EXCEPT ![t].pc = "init.getState"]
  /\ UNCHANGED <<managerVars, hostname, inbox, graph>>

\* shared/state.js line 11-18: chrome.storage.local reads the keys for a
\* getState() whose caller is still suspended; the reply is on its way
StoreServes(t) ==
  /\ tasks[t].pc \in {"init.getState", "hsc.getState"}
  /\ tasks[t].snap = <<>>
  /\ tasks' = [tasks EXCEPT ![t].snap = <<getState(local)>>]
  /\ UNCHANGED <<managerVars, hostname, overlay, inbox, graph>>
\* what a resuming getState() returns: the snapshot read earlier, or the
\* store as it is now
Snapshot(t) == IF tasks[t].snap # <<>> THEN tasks[t].snap[1] ELSE getState(local)

\* part_001 line 43-52: init() after `await PulseState.getState()`
OverlayInitState(t) ==
  /\ tasks[t].pc = "init.getState"
  /\ overlay' = ShowSnapshot(overlay, Snapshot(t))
  /\ tasks' = [tasks EXCEPT ![t] = Idle]
  /\ UNCHANGED <<managerVars, hostname, inbox, graph>>

\* part_001 line 277-303: handleSettingsChange() after `await getSettings()`
OverlaySettings(t) ==
  /\ tasks[t].pc = "hsc.getSettings"
  /\ LET oldSettings == tasks[t].old
         o == [overlay EXCEPT !.settings = <<sync>>]
         needsRecreate == /\ o.container
                          /\ oldSettings # <<>>
                          /\ Layout(oldSettings[1]) # Layout(o.settings[1])
         r == IF needsRecreate THEN removeOverlay(o) ELSE o
     IN IF ~shouldShow(o, hostname)
        THEN /\ overlay' = removeOverlay(o)
             /\ tasks' = [tasks EXCEPT ![t] = Idle]
        ELSE IF ~r.container
        THEN /\ overlay' = setupListeners(createOverlay(r))
             /\ tasks' = [tasks EXCEPT ![t] = [pc |-> "hsc.getState", old |-> <<>>, snap |-> <<>>]]
        ELSE /\ overlay' = updateDisplay(r)
             /\ tasks' = [tasks EXCEPT ![t] = Idle]
  /\ UNCHANGED <<managerVars, hostname, inbox, graph>>

\* part_001 line 303-314: handleSettingsChange() after `await getState()`
OverlaySettingsState(t) ==
  /\ tasks[t].pc = "hsc.getState"
  /\ overlay' = ShowSnapshot(overlay, Snapshot(t))
  /\ tasks' = [tasks EXCEPT ![t] = Idle]
  /\ UNCHANGED <<managerVars, hostname, inbox, graph>>

\* part_001 line 376-385: the page's script calls destroy(), once
OverlayDestroy ==
  /\ overlay.settings # <<>> \/ \E t \in DOMAIN tasks : tasks[t].pc # "idle"
  /\ ~overlay.destroyed
  /\ overlay' = [destroy(overlay) EXCEPT !.destroyed = TRUE]
  /\ UNCHANGED <<managerVars, hostname, tasks, inbox, graph>>

\* The browser delivers the next event to the listeners registered in the
\* page: part_001 line 256-259 (phase), 262-269 through shared/state.js line
\* 46-64 (sample, from the 'hr' message and from the store), and line 31-33
\* with 275-277 (settings: handleSettingsChange() runs to its first await).
Dispatch ==
  /\ inbox # <<>>
  /\ LET e == Head(inbox)
     IN IF e.type = "local.connectionState"
        THEN /\ overlay' = IF overlay.stateListeners > 0
                           THEN updateDisplay([overlay EXCEPT !.connectionState = e.state])
                           ELSE overlay
             /\ UNCHANGED tasks
        ELSE IF e.type \in {"local.currentBpm", "hr"}
        THEN /\ overlay' = IF overlay.hrListeners > 0
                           THEN OnSample(overlay, e.bpm,
                                         IF e.type = "hr" THEN e.timestamp ELSE overlay.clock)
                           ELSE overlay
             /\ UNCHANGED tasks
        ELSE IF overlay.settingsListeners > 0
        THEN /\ FreeTasks # {}
             /\ tasks' = [tasks EXCEPT ![Lowest(FreeTasks)] =
                            [pc |-> "hsc.getSettings", old |-> overlay.settings, snap |-> <<>>]]
             /\ UNCHANGED overlay
        ELSE UNCHANGED <<overlay, tasks>>
  /\ inbox' = Tail(inbox)
  /\ UNCHANGED <<managerVars, hostname, graph>>

\* ---------------------------------------------------------------- the graph
\* the samples a caller hands to addPoint at time t: a value inside, below
\* and above the axis limits; no timestamp (part_001 line 267 with a stored
\* value, state.js line 66), the source's timestamp of this moment, and a
\* timestamp as old as the longest window
GraphStep == 10 * 1000
Samples(t) ==
  {[bpm |-> 72, timestamp |-> Null], [bpm |-> 30, timestamp |-> Null],
   [bpm |-> 230, timestamp |-> t]}
  \cup (IF t > 60 * 1000 THEN {[bpm |-> 72, timestamp |-> t - 60 * 1000]} ELSE {})

GraphFrame ==
  UNCHANGED <<ws, isConnecting, connectionState, currentBpm, reconnectDelay,
              reconnectTimer, reconnectStartTime, autoReconnectEnabled,
              readyState, capacity, timers, sync, local, connects, timerCbs,
              handlers, lastArmed, paused, episode, accepting, hostname, overlay, tasks,
              inbox>>

\* part_001 line 49, 267, 309: a sample reaches the graph; one sample per
\* clock value
GraphAddPoint(sample) ==
  /\ ~Did("addPoint")
  /\ graph' = addPoint(graph, sample.bpm, sample.timestamp, now)
  /\ fx' = <<Fx("addPoint", "", NoDevice, sample.bpm, sample.timestamp)>>
  /\ UNCHANGED now
  /\ GraphFrame

\* part_001 line 332-334
GraphClear ==
  /\ graph.points # <<>>
  /\ graph' = clear(graph)
  /\ fx' = <<Fx("clearGraph", "", NoDevice, 0, 0)>>
  /\ UNCHANGED now
  /\ GraphFrame

\* time passes on the page
GraphTick ==
  /\ now + GraphStep <= MaxGraphNow
  /\ now' = now + GraphStep
  /\ fx' = <<Fx("tick", "", NoDevice, 0, 0)>>
  /\ UNCHANGED graph
  /\ GraphFrame

\* ---------------------------------------------------------------- the clock
\* Time passes: to the moment a pending timer is due (TimerDue), or by a pause
\* longer than the reconnect window (Pause: a slow attempt, or the worker
\* suspended by the host, after which pending timers fire late).  Nothing
\* reads the clock unless an episode runs or a timer is pending.
TickTo(t) ==
  /\ t > now
  /\ t <= MaxNow
  /\ Commit([M EXCEPT !.now = t])
  /\ UNCHANGED sync

TimerDue == \E i \in TimerIds : timers[i] # Null /\ TickTo(timers[i])

Pause ==
  /\ reconnectStartTime # Null \/ \E i \in TimerIds : timers[i] # Null
  /\ TickTo(now + PauseMs)

Attempts ==
  \/ ConnectShould
  \/ ConnectSettings
  \/ ConnectSocket
  \/ ConnectThrows
  \/ ConnectCaught
  \/ \E s \in Sockets : OnOpen(s)
  \/ \E s \in Sockets : OnClose(s)
  \/ KeepAlive
  \/ ReconnectMsg

Inbound == \E s \in Sockets, msg \in Messages : OnMessage(s, msg)

Settings ==
  \/ \E settings \in ManagerSettings : StorageChanged(settings)
  \/ HandleSettingsChange

Timers ==
  \/ \E id \in TimerIds : TimerFire(id)
  \/ TimerCallback
  \/ Pause

\* one attempt and one socket at a time, every handler; the clock moves by
\* pauses only, so a timer fires late
Next == Attempts \/ Inbound \/ Settings \/ Timers
Spec == Init /\ [][Next]_vars

\* overlapping attempts and sockets, every handler, the clock standing still
NextRace == Attempts \/ Inbound \/ Settings
SpecRace == InitRace /\ [][NextRace]_vars

\* one attempt at a time, a socket that may outlive the manager's reference
\* to it, and timers firing when due; the settings stay as they are and the
\* source sends nothing
NextBackoff == Attempts \/ Timers \/ TimerDue
SpecBackoff == InitBackoff /\ [][NextBackoff]_vars

\* the predicates on every stored `enabled` and override map: the first
\* connect() of the worker and the init() of a page on every host
NextPredicates ==
  \/ ConnectShould
  \/ \E t \in 1..MaxTasks : OverlayInit(t)
  \/ \E t \in 1..MaxTasks : OverlayInitState(t)
SpecPredicates == InitPredicates /\ [][NextPredicates]_vars

\* a page on a.com and the worker's one attempt, its socket and the source's
\* messages, under settings that change
Page ==
  \/ \E t \in 1..MaxTasks : OverlayInit(t)
  \/ \E t \in 1..MaxTasks : OverlayInitState(t)
  \/ \E t \in 1..MaxTasks : OverlaySettings(t)
  \/ \E t \in 1..MaxTasks : OverlaySettingsState(t)
  \/ Dispatch
NextSurface ==
  \/ ConnectShould
  \/ ConnectSettings
  \/ ConnectSocket
  \/ \E s \in Sockets : OnOpen(s)
  \/ \E s \in Sockets : OnClose(s)
  \/ \E s \in Sockets, msg \in SurfaceMessages : OnMessage(s, msg)
  \/ \E settings \in SurfaceSettings : StorageChanged(settings)
  \/ HandleSettingsChange
  \/ Page
SpecSurface == InitSurface /\ [][NextSurface]_vars

\* a page on a.com shown in graph mode while the settings change in the
\* fields the node is built from; the worker connects once and the source
\* sends the first sample
FirstSample(s) ==
  /\ local.currentBpm = Null
  /\ \E b \in Bpms : OnMessage(s, Msg("bpm", "", NoDevice, b))
NextRemount ==
  \/ ConnectShould
  \/ ConnectSettings
  \/ ConnectSocket
  \/ \E s \in Sockets : OnOpen(s)
  \/ \E s \in Sockets : FirstSample(s)
  \/ \E settings \in RemountSettings : StorageChanged(settings)
  \/ HandleSettingsChange
  \/ Page
SpecRemount == InitRemount /\ [][NextRemount]_vars

\* a page on a.com shown in graph mode and the worker's one socket, on which
\* the source sends samples, stamped or not, while the page's clock runs; at
\* most MaxPoints points are buffered
Stamped(msg, timestamp) == [msg EXCEPT !.timestamp = timestamp]
FeedBpms == {72, 75}
Feed(s) ==
  /\ Len(overlay.buffer.points) + Len(inbox) + 2 <= MaxPoints
  /\ \E b \in FeedBpms, timestamp \in {Null, overlay.clock, overlay.clock - Latency} :
       OnMessage(s, Stamped(Msg("bpm", "", NoDevice, b), timestamp))
ClockTick ==
  /\ overlay.clock < MaxClock
  /\ overlay' = [overlay EXCEPT !.clock = @ + Latency]
  /\ UNCHANGED <<managerVars, hostname, tasks, inbox, graph>>
NextFeed ==
  \/ ConnectShould
  \/ ConnectSettings
  \/ ConnectSocket
  \/ \E s \in Sockets : OnOpen(s)
  \/ \E s \in Sockets : Feed(s)
  \/ \E t \in 1..MaxTasks : OverlayInit(t)
  \/ \E t \in 1..MaxTasks : OverlayInitState(t)
  \/ Dispatch
  \/ ClockTick
SpecFeed == InitFeed /\ [][NextFeed]_vars

\* a page on a.com that stays shown while its display mode changes, so that
\* it mounts in init() and remounts; the worker connects and the source
\* reports its phase; the store may read a snapshot before its reader resumes
SnapshotSettings ==
  {StoredSettings(TRUE, "ws://localhost:8765", "standard", EmptyOverrides), GraphShown}
SnapshotMessages ==
  {Msg("status", "connected", "H10", Null), Msg("status", "disconnected", NoDevice, Null)}
InitSnapshot ==
  /\ Start(MaxSockets, MaxConnects, SnapshotSettings)
  /\ PageOpened({"a.com"})
  /\ Uncounted /\ Unpromised
NextSnapshot ==
  \/ ConnectShould
  \/ ConnectSettings
  \/ ConnectSocket
  \/ \E s \in Sockets : OnOpen(s)
  \/ \E s \in Sockets, msg \in SnapshotMessages : OnMessage(s, msg)
  \/ \E settings \in SnapshotSettings : StorageChanged(settings)
  \/ HandleSettingsChange
  \/ Page
  \/ \E t \in 1..MaxTasks : StoreServes(t)
SpecSnapshot == InitSnapshot /\ [][NextSnapshot]_vars

\* a page on a.com shown under the defaults while the worker loses its
\* connection and gets a new one, by its timer or by a reconnect request; the
\* source sends samples and no status
InitReturn ==
  /\ Start(RaceSockets, MaxConnects, {PULSE_DEFAULTS})
  /\ PageOpened({"a.com"})
  /\ Uncounted /\ Unpromised
NextReturn ==
  \/ ConnectShould
  \/ ConnectSettings
  \/ ConnectSocket
  \/ \E s \in Sockets : OnOpen(s)
  \/ \E s \in Sockets : OnClose(s)
  \/ \E s \in Sockets, b \in Bpms : OnMessage(s, Msg("bpm", "", NoDevice, b))
  \/ ReconnectMsg
  \/ \E id \in TimerIds : TimerFire(id)
  \/ TimerCallback
  \/ TimerDue
  \/ \E t \in 1..MaxTasks : OverlayInit(t)
  \/ \E t \in 1..MaxTasks : OverlayInitState(t)
  \/ Dispatch
SpecReturn == InitReturn /\ [][NextReturn]_vars

\* a source that accepts no connection: every socket closes without opening,
\* the timers fire when due and the alarm fires at most MaxAlarms times in
\* the episode; nobody asks for a reconnect and the settings stay
EpisodeAlarm == episode.alarms < MaxAlarms /\ KeepAlive
EpisodeClose == \E s \in DOMAIN readyState : readyState[s] = "CONNECTING" /\ OnClose(s)
NextEpisode ==
  \/ ConnectShould
  \/ ConnectSettings
  \/ ConnectSocket
  \/ ConnectThrows
  \/ ConnectCaught
  \/ EpisodeClose
  \/ EpisodeAlarm
  \/ \E id \in TimerIds : TimerFire(id)
  \/ TimerCallback
  \/ TimerDue
SpecEpisode == InitEpisode /\ [][NextEpisode]_vars

\* a source that refuses or drops connections and then recovers for good;
\* the user asks for a reconnect at any time.  Handlers that were started and
\* socket events that are due do run (weak fairness); the user, the alarm,
\* the source's recovery and the passing of time owe nothing.  The clock
\* moves by pauses only, so a timer fires late.
SourceRecovers ==
  /\ ~accepting
  /\ accepting' = TRUE
  /\ fx' = <<Fx("recovers", "", NoDevice, 0, 0)>>
  /\ UNCHANGED <<ws, isConnecting, connectionState, currentBpm, reconnectDelay,
                 reconnectTimer, reconnectStartTime, autoReconnectEnabled,
                 readyState, capacity, timers, now, sync, local, connects,
                 timerCbs, handlers, lastArmed, paused, episode, hostname,
                 overlay, tasks, inbox, graph>>
LiveClose(s) ==
  /\ s \in DOMAIN readyState
  /\ readyState[s] = "CLOSING" \/ ~accepting
  /\ OnClose(s)
LiveHandlers ==
  \/ ConnectShould
  \/ ConnectSettings
  \/ ConnectSocket
  \/ \E s \in Sockets : OnOpen(s)
  \/ \E s \in Sockets : readyState[s] = "CLOSING" /\ OnClose(s)
  \/ \E id \in TimerIds : TimerFire(id)
  \/ TimerCallback
NextLive ==
  \/ ConnectShould
  \/ ConnectSettings
  \/ ConnectSocket
  \/ \E s \in Sockets : OnOpen(s)
  \/ \E s \in Sockets : LiveClose(s)
  \/ \E id \in TimerIds : TimerFire(id)
  \/ TimerCallback
  \/ KeepAlive
  \/ ReconnectMsg
  \/ Pause
  \/ SourceRecovers
SpecLive == InitLive /\ [][NextLive]_vars /\ WF_vars(LiveHandlers)

\* a page on a.com whose surface is destroyed at some moment, under settings
\* that change; the worker only takes note of the settings
NextDestroy ==
  \/ \E settings \in SurfaceSettings : StorageChanged(settings)
  \/ HandleSettingsChange
  \/ Page
  \/ OverlayDestroy
SpecDestroy == InitSurface /\ [][NextDestroy]_vars

\* the graph of one page: samples with and without a timestamp, as time
\* passes
NextGraph ==
  \/ \E sample \in Samples(now) : GraphAddPoint(sample)
  \/ GraphClear
  \/ GraphTick
SpecGraph == InitGraph /\ [][NextGraph]_vars

\* ================================================================== claims
Live == {s \in DOMAIN readyState : readyState[s] \in {"CONNECTING", "OPEN"}}
Marked(op) == {i \in 1..Len(fx) : fx[i].op = op}

\* C1: at every instant at most one WebSocket the manager created is
\* CONNECTING or OPEN.
C1_AtMostOneLiveSocket == Cardinality(Live) <= 1

\* C2: a connect() call made while isConnecting is true, or while the held
\* socket is CONNECTING or OPEN, changes nothing (no socket, no phase written
\* or broadcast, flag, delay, episode clock and timer as they were); a call
\* made otherwise has set isConnecting when the step that made it ends, so no
\* other handler runs between the check and the set.
C2_Refused ==
  \/ isConnecting
  \/ ws # NoSocket /\ readyState[ws] \in {"CONNECTING", "OPEN"}
C2_InFlightConnectIsNoOp ==
  /\ C2_Refused => connect(M) = [M EXCEPT !.fx = <<Fx("noop", "", NoDevice, 0, 0)>>]
  /\ ~C2_Refused => /\ connect(M).isConnecting
                    /\ connect(M).fx = <<Fx("connect", "", NoDevice, 0, 0)>>
  /\ Did("noop") => /\ ~Did("connect")
                    /\ ~Did("new")
                    /\ ~Did("set")
                    /\ ~Did("status")
                    /\ ~Did("arm")
  /\ Did("connect") => isConnecting
\* a handler called connect() while the held socket was open and the flag clear
C2_RefusedWhileOpen ==
  /\ Did("noop")
  /\ ~isConnecting
  /\ ws # NoSocket
  /\ readyState[ws] = "OPEN"

\* C3: in a failure episode the first timer is armed with 1000 ms and every
\* later one with twice the delay of the timer armed before it, capped at
\* 30000 ms; every delay is within [1000, 30000].
C3_DelaysDouble ==
  \A i \in Marked("arm") :
    /\ fx[i].n >= INITIAL_DELAY
    /\ fx[i].n <= RECONNECT_MAX_DELAY
    /\ fx[i].p = 0 => fx[i].n = INITIAL_DELAY
    /\ fx[i].p # 0 => fx[i].n = Min(2 * fx[i].p, RECONNECT_MAX_DELAY)

\* C4: while the socket the manager holds is open, the backoff delay is
\* 1000 ms and the episode clock is cleared.
C4_OpenKeepsBackoffReset ==
  (ws # NoSocket /\ readyState[ws] = "OPEN")
    => (reconnectDelay = INITIAL_DELAY /\ reconnectStartTime = Null)

C5_Reenabled ==
  \/ Did("reconnect")'
  \/ Did("open")'
  \/ Did("settings")' /\ shouldBeConnected(sync) /\ connectionState = "disconnected"
C6_ManualReconnectResets ==
  /\ [](Did("reconnect") =>
          /\ reconnectDelay = INITIAL_DELAY
          /\ reconnectStartTime = Null
          /\ autoReconnectEnabled
          /\ reconnectTimer = Null
          /\ \A i \in TimerIds : timers[i] = Null
          /\ Did("connect")
          /\ ~Did("noop")
          /\ isConnecting
          /\ connects["shouldBeConnected"] > 0)
  /\ [][(Did("reconnect")' /\ ws # NoSocket) =>
          /\ readyState'[ws] \notin {"CONNECTING", "OPEN"}
          /\ ws' = NoSocket]_vars
\* a request handled while a socket was held and a timer was pending
C6_ReconnectClosedAndCancelled ==
  /\ Did("reconnect")
  /\ Did("close")
  /\ Did("clear")

\* C7: shouldBeConnected is true exactly when `enabled` is true or some
\* value of siteOverrides is the boolean true; the first connect() goes on
\* past its check exactly then.
C7_Desired == sync.enabled \/ \E h \in Hosts : sync.siteOverrides[h] = "true"
C7_ShouldBeConnectedIffEnabledOrOverride ==
  /\ shouldBeConnected(sync) <=> C7_Desired
  /\ \A i \in Marked("resumed") : fx[i].s = "true" <=> C7_Desired
  /\ Did("resumed") => (connects["getSettings"] = 1 <=> C7_Desired)
  /\ Did("resumed") => (isConnecting <=> C7_Desired)
  /\ ~shouldBeConnected(StoredSettings(FALSE, "ws://localhost:8765", "standard", NullOverrides))
  /\ ~shouldBeConnected(StoredSettings(FALSE, "ws://localhost:8765", "standard", EmptyOverrides))
\* connect() went on with `enabled` false, because of an override of true
C7_ProceededOnOverride ==
  /\ Did("resumed")
  /\ ~sync.enabled
  /\ connects["getSettings"] = 1

\* C8: when a settings change has been handled with should-connect false, no
\* socket is open.
C8_NoOpenSocketWhenUndesired ==
  (Did("settings") /\ ~shouldBeConnected(sync))
    => \A s \in DOMAIN readyState : readyState[s] # "OPEN"

\* C9: a surface on host h shows if siteOverrides[h] is true, hides if it is
\* false, and follows `enabled` otherwise; init() mounts the node exactly
\* when it shows.
C9_OnlyOverride(host, val) == [EmptyOverrides EXCEPT ![host] = val]
C9_With(enabled, overrides) ==
  [Constructed EXCEPT !.settings =
     <<StoredSettings(enabled, "ws://localhost:8765", "standard", overrides)>>]
C9_Visible ==
  \/ sync.siteOverrides[hostname] = "true"
  \/ sync.siteOverrides[hostname] = "absent" /\ sync.enabled
C9_ShouldShowTriState ==
  /\ overlay.settings # <<>> =>
       /\ overlay.settings = <<sync>>
       /\ shouldShow(overlay, hostname) <=> C9_Visible
       /\ overlay.container <=> C9_Visible
  /\ shouldShow(C9_With(FALSE, C9_OnlyOverride("a.com", "true")), "a.com")
  /\ ~shouldShow(C9_With(FALSE, C9_OnlyOverride("a.com", "true")), "b.com")
  /\ ~shouldShow(C9_With(TRUE, C9_OnlyOverride("a.com", "false")), "a.com")
  /\ shouldShow(C9_With(TRUE, C9_OnlyOverride("a.com", "false")), "b.com")
\* init() mounted the node with `enabled` false, because of the host's override
C9_ShownByOverride ==
  /\ overlay.container
  /\ ~sync.enabled
  /\ overlay.settings = <<sync>>

\* C10: a mounted surface shows a number only if its phase is connected and
\* a value is cached (and then that value); in every other phase it shows
\* the placeholder.
C10_NumberOnlyWhenConnected ==
  overlay.container =>
    /\ overlay.display \in {Placeholder} \cup {ToString(b) : b \in Bpms}
    /\ overlay.display # Placeholder =>
         /\ overlay.connectionState = "connected"
         /\ overlay.currentBpm # Null
         /\ overlay.display = ToString(overlay.currentBpm)
    /\ overlay.connectionState # "connected" => overlay.display = Placeholder
\* a value is cached, the phase is disconnected, the placeholder is shown
C10_CachedButNotShown ==
  /\ overlay.container
  /\ overlay.currentBpm # Null
  /\ overlay.connectionState = "disconnected"
  /\ overlay.display = Placeholder

\* C11: immediately after every insert into the graph's buffer at time now,
\* every retained entry has a timestamp greater than now - duration * 1000,
\* and nothing newer than that was dropped: the entries kept from before are
\* exactly the earlier entries newer than the cutoff, in their order, and the
\* inserted entry is kept exactly when its own timestamp is newer than the
\* cutoff.
C11_Stamps == [i \in 1..Len(graph.points) |-> graph.points[i].timestamp]
C11_WindowHoldsAfterInsert ==
  [][Did("addPoint")' =>
       LET inserted == [bpm |-> fx'[1].n,
                        timestamp |-> IF fx'[1].p \in {Null, 0} THEN now' ELSE fx'[1].p]
           cutoff == now' - graph'.duration * 1000
           before == SelectSeq(graph.points, LAMBDA p : p.timestamp > cutoff)
       IN  /\ \A i \in 1..Len(graph'.points) : graph'.points[i].timestamp > cutoff
           /\ graph'.points = IF inserted.timestamp > cutoff
                                THEN Append(before, inserted)
                                ELSE before]_vars
\* the example: inserts at 0, 10, ..., 100 s, a 60 s window, seen at 100 s
C11_ExampleWindow ==
  /\ Did("addPoint")
  /\ now = 100000
  /\ graph.duration = 60
  /\ C11_Stamps = <<50000, 60000, 70000, 80000, 90000, 100000>>

\* C12: once the graph is constructed, and after any inserts of values of any
\* magnitude, both axis bounds lie in [40, 220]; while entries are retained
\* the lower bound is max(40, m - 10) and the upper bound min(220, M + 10),
\* m and M being the least and the greatest retained value, each clamped to
\* [40, 220].
C12_Clamped ==
  {IF graph.points[i].bpm < 40 THEN 40
     ELSE IF graph.points[i].bpm > 220 THEN 220
     ELSE graph.points[i].bpm : i \in 1..Len(graph.points)}
C12_AxisWithinSanityBounds ==
  /\ graph.minBpm \in 40..220
  /\ graph.maxBpm \in 40..220
  /\ graph.points # <<>> =>
       \E m \in C12_Clamped, top \in C12_Clamped :
         /\ \A v \in C12_Clamped : m <= v /\ v <= top
         /\ graph.minBpm = (IF m - 10 < 40 THEN 40 ELSE m - 10)
         /\ graph.maxBpm = (IF top + 10 > 220 THEN 220 ELSE top + 10)
\* only a value above the limits is retained: the axis is 210..220
C12_OnlyHugeValue ==
  /\ Did("addPoint")
  /\ graph.points # <<>>
  /\ \A i \in 1..Len(graph.points) : graph.points[i].bpm = 230
  /\ graph.minBpm = 210
  /\ graph.maxBpm = 220

\* C13: an inbound message that is not valid JSON, or valid JSON with neither
\* `status` nor `bpm`, is dropped: the socket stays open and the phase, the
\* cached value, the stored state, the events published and the backoff state
\* (delay, timer, episode clock, auto-reconnect flag) are all as they were.
C13_Dropped == \E i \in Marked("message") : fx[i].s \in {"other", "garbage"}
C13_MalformedMessageDropped ==
  [][C13_Dropped' =>
       /\ \A i \in Marked("message")' : readyState'[fx'[i].n] = "OPEN"
       /\ Len(fx') = 1
       /\ UNCHANGED <<ws, isConnecting, connectionState, currentBpm, local, sync,
                      inbox, readyState, reconnectDelay, reconnectTimer, timers,
                      reconnectStartTime, autoReconnectEnabled, now, connects,
                      timerCbs, handlers>>]_vars
\* garbage arrived on the open socket of a connected manager holding a value
C13_GarbageWhileConnected ==
  /\ \E i \in Marked("message") : fx[i].s = "garbage"
  /\ connectionState = "connected"
  /\ currentBpm = 72
  /\ ws # NoSocket
  /\ readyState[ws] = "OPEN"

\* C14: a well-formed inbound message is handled as exactly one of two kinds.
\* A status message (also one that carries a bpm) sets the phase and the
\* device, publishes one status event, publishes no sample and leaves the
\* cached value alone; a data message sets the cached value, publishes one
\* sample and leaves the phase alone.
C14_Kind(kind) == \E i \in Marked("message") : fx[i].s = kind
C14_StatusOrData ==
  [][/\ C14_Kind("status")' =>
          /\ Cardinality(Marked("status")') = 1
          /\ \A i \in Marked("status")' : /\ connectionState' = fx'[i].s
                                           /\ local'.connectionState = fx'[i].s
          /\ ~Did("hr")' /\ ~Did("setBpm")'
          /\ currentBpm' = currentBpm
          /\ local'.currentBpm = local.currentBpm
     /\ C14_Kind("bpm")' =>
          /\ Cardinality(Marked("hr")') = 1
          /\ \A i \in Marked("hr")' : /\ currentBpm' = fx'[i].n
                                       /\ local'.currentBpm = fx'[i].n
          /\ ~Did("status")' /\ ~Did("set")'
          /\ connectionState' = connectionState
          /\ local'.connectionState = local.connectionState]_vars
\* a status message moved the phase while a value was cached
C14_StatusWithValueCached ==
  /\ C14_Kind("status")
  /\ \E i \in Marked("status") : fx[i].s = "scanning"
  /\ connectionState = "scanning"
  /\ currentBpm = 72

\* C15: every change of the manager's phase and every sample is written to
\* the store and then published, the write before the broadcast, so that the
\* phase in memory is the phase in the store after every step.
C15_WrittenThenPublished ==
  [][/\ connectionState' # connectionState =>
          \E i, j \in DOMAIN fx' :
            /\ i < j
            /\ fx'[i].op = "set" /\ fx'[i].s = connectionState'
            /\ fx'[j].op = "status" /\ fx'[j].s = connectionState'
     /\ \A j \in Marked("hr")' :
          \E i \in Marked("setBpm")' : i < j /\ fx'[i].n = fx'[j].n
     /\ connectionState' = local'.connectionState]_vars

\* C16: a close of a socket at any stage (connecting, open or closing), and a
\* URL the WebSocket constructor refuses, both end with the phase
\* `disconnected` written and published and with scheduleReconnect entered: a
\* retry timer is pending for the current delay whenever automatic reconnect
\* was enabled and the episode was within its 60000 ms window.  The refused
\* URL ends the attempt (isConnecting false) instead of propagating.
C16_MayRetry ==
  /\ autoReconnectEnabled
  /\ reconnectStartTime # Null => now - reconnectStartTime <= RECONNECT_TIMEOUT
C16_WroteDisconnected ==
  /\ \E i, j \in DOMAIN fx :
       /\ i < j
       /\ fx[i].op = "set" /\ fx[i].s = "disconnected"
       /\ fx[j].op = "status" /\ fx[j].s = "disconnected"
  /\ connectionState = "disconnected"
  /\ local.connectionState = "disconnected"
C16_Armed ==
  /\ Did("arm")
  /\ reconnectTimer # Null
  /\ timers[reconnectTimer] = now + reconnectDelay
  /\ reconnectStartTime # Null
C16_CloseEntersReconnectPath ==
  [][/\ Did("onclose")' =>
          /\ C16_WroteDisconnected'
          /\ ~isConnecting'
          /\ C16_MayRetry => C16_Armed'
     /\ connects'["setConnectingBadUrl"] < connects["setConnectingBadUrl"] =>
          /\ C16_WroteDisconnected'
          /\ ~isConnecting'
          /\ connects'["setDisconnected"] = connects["setDisconnected"] + 1
     /\ connects'["setDisconnected"] < connects["setDisconnected"] =>
          (C16_MayRetry => C16_Armed')]_vars
\* the WebSocket constructor refused the URL and the retry timer is armed
C16_RetryAfterRefusedUrl ==
  /\ sync.serverUrl = "not a url"
  /\ Did("arm")
  /\ ~Did("onclose")
  /\ connectionState = "disconnected"
  /\ reconnectTimer # Null

\* C17: connect() and the reconnect-timer callback evaluate the should-connect
\* predicate again after their await.  When it is false, connect() ends there:
\* no socket, no phase written or published, no timer armed, isConnecting
\* false and nothing of the attempt left suspended; the timer callback calls
\* no connect() and leaves the delay as it was.
C17_Saw(op) == \E i \in Marked(op) : fx[i].s = "false"
C17_PredicateReevaluated ==
  [][/\ C17_Saw("resumed")' =>
          /\ Len(fx') = 1
          /\ ~isConnecting'
          /\ connects' = [connects EXCEPT !["shouldBeConnected"] = @ - 1]
          /\ UNCHANGED <<ws, readyState, connectionState, local, inbox, timers,
                         reconnectTimer, reconnectDelay, reconnectStartTime>>
     /\ C17_Saw("timerCb")' =>
          /\ Len(fx') = 1
          /\ UNCHANGED <<connects, isConnecting, reconnectDelay, ws, readyState>>]_vars
\* the timer fired after the connection stopped being desired, while a retry
\* was otherwise due
C17_CallbackStoodDown ==
  /\ C17_Saw("timerCb")
  /\ autoReconnectEnabled
  /\ ~isConnecting
  /\ ws = NoSocket
  /\ ~shouldBeConnected(sync)

\* C18: at every instant at most one reconnect timer is pending, and the
\* handle reconnectTimer is non-null exactly when a timer is pending, which is
\* then the timer it names; a step that fired the timer or ran disconnect()
\* ends with the handle null unless it armed a new timer.
C18_PendingTimers == {i \in TimerIds : timers[i] # Null}
C18_AtMostOnePendingTimer ==
  /\ Cardinality(C18_PendingTimers) <= 1
  /\ reconnectTimer # Null <=> C18_PendingTimers # {}
  /\ reconnectTimer # Null => C18_PendingTimers = {reconnectTimer}
  /\ (Did("fire") \/ Did("reconnect")) /\ ~Did("arm") => reconnectTimer = Null
\* a failure while a timer was pending: the timer was cancelled and a new one
\* armed
C18_Rearmed ==
  /\ \E i \in Marked("clear"), j \in Marked("arm") : i < j
  /\ Cardinality(C18_PendingTimers) = 1

\* C19: when the keep-alive alarm fires, connect() is called if and only if
\* automatic reconnect is enabled and no socket is open; with automatic
\* reconnect disabled the alarm makes no attempt, and with a socket open or an
\* attempt in flight it changes nothing.
C19_Open == \E s \in DOMAIN readyState : readyState[s] = "OPEN"
C19_Called == Did("connect") \/ Did("noop")
C19_AlarmAttemptsIffEnabledAndNotOpen ==
  [][Did("alarm")' =>
       /\ C19_Called' <=> (autoReconnectEnabled /\ ~C19_Open)
       /\ ~autoReconnectEnabled => ~Did("connect")'
       /\ (C19_Open \/ isConnecting) =>
            /\ ~Did("connect")'
            /\ UNCHANGED <<ws, isConnecting, connectionState, currentBpm, local,
                           readyState, reconnectDelay, reconnectTimer, timers,
                           reconnectStartTime, autoReconnectEnabled, connects>>]_vars

\* C20: in a failure episode in which no attempt succeeds, at most 6 automatic
\* connect attempts (those started by the reconnect timer or the keep-alive
\* alarm) are made before automatic reconnect pauses.
C20_AtMostSixAutomaticAttempts == episode.attempts <= 6

\* C21: after a manual reconnect request, with the should-connect predicate
\* true and the source accepting connections, the phase eventually becomes
\* `connected` (unless the requests never stop), also when automatic reconnect
\* had been paused by the timeout and when a socket was still open or
\* connecting at the request.
C21_ReconnectLeadsToConnected ==
  (<>[]~Did("reconnect")) =>
    ((Did("reconnect") /\ accepting /\ shouldBeConnected(sync))
       ~> (connectionState = "connected"))
\* the request found a socket of the manager and closed it, the source
\* accepting connections
C21_RequestClosedLiveSocket ==
  /\ Did("reconnect")
  /\ Did("close")
  /\ accepting
  /\ shouldBeConnected(sync)
  /\ isConnecting

\* C23: an unmount because the surface is no longer to be shown removes the
\* node and releases the phase and sample subscriptions, and leaves the
\* settings subscription registered; once init() has registered it the
\* settings subscription is registered in every state, and a settings-change
\* handler that finds the surface is to be shown and not mounted mounts it.
C23_Hidden == overlay.settings # <<>> /\ ~shouldShow(overlay, hostname)
C23_SettingsSubscriptionKept ==
  [][/\ overlay'.settings # <<>> =>
          overlay'.unsubscribeSettings /\ overlay'.settingsListeners = 1
     /\ overlay.container /\ ~overlay'.container /\ C23_Hidden' =>
          /\ overlay'.nodes = 0
          /\ ~overlay'.unsubscribeState /\ overlay'.stateListeners = 0
          /\ ~overlay'.unsubscribeHR /\ overlay'.hrListeners = 0
          /\ overlay'.settingsListeners = overlay.settingsListeners
     /\ \A t \in DOMAIN tasks :
          tasks[t].pc = "hsc.getSettings" /\ tasks'[t].pc # "hsc.getSettings"
            /\ ~C23_Hidden' => overlay'.container]_vars
\* a surface that was mounted and received a value is hidden, listening for
\* settings only
C23_HiddenStillListening ==
  /\ C23_Hidden
  /\ ~overlay.container
  /\ overlay.currentBpm # Null
  /\ overlay.settingsListeners = 1
  /\ overlay.stateListeners = 0
  /\ overlay.hrListeners = 0

\* C24: in every state of a surface the phase and the sample subscription
\* are registered exactly when the node is mounted, each handle is held
\* exactly then, and each kind of subscription (phase, sample, settings) is
\* registered at most once.
C24_DataListenersIffMounted ==
  /\ overlay.stateListeners = (IF overlay.container THEN 1 ELSE 0)
  /\ overlay.hrListeners = (IF overlay.container THEN 1 ELSE 0)
  /\ overlay.unsubscribeState = overlay.container
  /\ overlay.unsubscribeHR = overlay.container
  /\ overlay.settingsListeners <= 1
\* a settings-change handler mounted the surface and waits for the snapshot
\* while another handler is in flight
C24_MountedBySettingsChange ==
  /\ overlay.container
  /\ overlay.stateListeners = 1
  /\ overlay.hrListeners = 1
  /\ \E t, u \in DOMAIN tasks :
       tasks[t].pc = "hsc.getState" /\ tasks[u].pc = "hsc.getSettings"

\* C25: under every interleaving of init() and overlapping settings-change
\* handlers the page has at most one overlay node, the one the surface holds.
C25_AtMostOneNode ==
  /\ overlay.nodes <= 1
  /\ (overlay.nodes = 1) = overlay.container
\* two handlers in flight at once, the node mounted
C25_OverlappingHandlers ==
  /\ overlay.nodes = 1
  /\ \A t \in DOMAIN tasks : tasks[t].pc # "idle"
  /\ \E t \in DOMAIN tasks : tasks[t].pc = "init.getState"

\* C26: after destroy(), once every init() and settings-change handler that
\* was in flight has finished, the surface holds no subscription (phase,
\* sample, settings) and no node, so that it never mounts again.
C26_DestroyedHoldsNothing ==
  overlay.destroyed /\ (\A t \in DOMAIN tasks : tasks[t].pc = "idle") =>
    /\ ~overlay.container
    /\ overlay.nodes = 0
    /\ overlay.stateListeners = 0
    /\ overlay.hrListeners = 0
    /\ overlay.settingsListeners = 0

\* C22: when a handleSettingsChange() that found the surface mounted leaves
\* it shown, the node is rebuilt exactly when the new settings differ, in
\* displayMode, position, size, opacity or graphDuration, from what the node
\* was built from: then the data listeners of the old node are released, the
\* node is built from the new settings with an empty buffer and the handler
\* goes on to seed it from the snapshot; otherwise the node, its listeners
\* and its buffer stay as they were.
C22_Resumed(t) ==
  /\ tasks[t].pc = "hsc.getSettings"
  /\ tasks'[t].pc # "hsc.getSettings"
  /\ overlay.container
  /\ shouldShow(overlay', hostname)
C22_Remounted(t) ==
  /\ tasks'[t].pc = "hsc.getState"
  /\ overlay'.container
  /\ overlay'.nodes = overlay.nodes
  /\ overlay'.stateListeners = overlay.stateListeners
  /\ overlay'.hrListeners = overlay.hrListeners
  /\ overlay'.built = <<Layout(sync)>>
  /\ overlay'.buffer = IF sync.displayMode = "graph"
                       THEN PulseGraph(sync.graphDuration) ELSE NoGraph
C22_Kept(t) ==
  /\ tasks'[t].pc = "idle"
  /\ overlay'.built = overlay.built
  /\ overlay'.buffer = overlay.buffer
  /\ overlay'.nodes = overlay.nodes
  /\ overlay'.hrListeners = overlay.hrListeners
C22_LayoutChangeRemounts ==
  [][\A t \in 1..MaxTasks :
       C22_Resumed(t) =>
         IF overlay.built # <<Layout(sync)>> THEN C22_Remounted(t) ELSE C22_Kept(t)]_vars

\* C27: one data message of the source adds at most one insert to the buffer
\* of a listening surface, counting the inserts made and the invocations of
\* its sample callback still to be delivered; and the delivery of one event
\* inserts at most once.
C27_SampleEvents == SelectSeq(inbox, LAMBDA e : e.type \in {"local.currentBpm", "hr"})
C27_Inserts ==
  Len(overlay.buffer.points)
    + (IF overlay.hrListeners > 0 THEN Len(C27_SampleEvents) ELSE 0)
C27_AtMostOneInsertPerMessage ==
  [][/\ Did("hr")' => C27_Inserts' <= C27_Inserts + 1
     /\ (inbox # <<>> /\ inbox' = Tail(inbox))
          => Len(overlay'.buffer.points) <= Len(overlay.buffer.points) + 1]_vars

\* C28: the points of the buffer are in ascending order of timestamp.
C28_BufferAscending ==
  \A i \in 1..Len(overlay.buffer.points) - 1 :
    overlay.buffer.points[i].timestamp <= overlay.buffer.points[i + 1].timestamp

\* C29: every socket that is CONNECTING or OPEN is the one the manager holds
\* in `ws`; and the close event of a socket that disconnect() closed, arriving
\* while the manager holds a newer socket or a newer attempt is in flight,
\* leaves `ws`, isConnecting and the phase as they are and arms no timer.
C29_StaleClose(s) ==
  /\ readyState[s] = "CLOSING"
  /\ readyState'[s] = "CLOSED"
  /\ ws # NoSocket \/ isConnecting
C29_LiveSocketIsReferenced ==
  [][/\ \A s \in Live' : ws' = s
     /\ \A s \in DOMAIN readyState :
          C29_StaleClose(s) => /\ ws' = ws
                               /\ isConnecting' = isConnecting
                               /\ connectionState' = connectionState
                               /\ ~Did("arm")']_vars

\* C30: once no connect attempt, settings handler or timer callback is
\* suspended and no socket is CONNECTING or CLOSING, no socket is OPEN while
\* should-connect is false.
C30_Settled ==
  /\ \A pc \in ConnectPcs : connects[pc] = 0
  /\ handlers = 0
  /\ timerCbs = 0
  /\ \A s \in DOMAIN readyState : readyState[s] \notin {"CONNECTING", "CLOSING"}
C30_NoOpenSocketOnceSettled ==
  (C30_Settled /\ ~shouldBeConnected(sync))
    => \A s \in DOMAIN readyState : readyState[s] # "OPEN"

\* C31: once no handler of a mounted surface is suspended and every change
\* event has been delivered, the surface's phase is the phase in the store.
C31_PageSettled ==
  /\ \A t \in 1..MaxTasks : tasks[t].pc = "idle"
  /\ inbox = <<>>
C31_PhaseFollowsStore ==
  (C31_PageSettled /\ overlay.container)
    => overlay.connectionState = local.connectionState

\* C32: once every settings event has been delivered and no handler of the
\* page is suspended, the surface is mounted exactly when the stored settings
\* say it shows on this host, and a mounted node was built from the stored
\* displayMode, position, size, opacity and graphDuration.
C32_HandlersFinished ==
  /\ \A t \in 1..MaxTasks : tasks[t].pc = "idle"
  /\ \A i \in 1..Len(inbox) : inbox[i].type # "sync"
C32_MountedAsLatestSettingsSay ==
  C32_HandlersFinished =>
    /\ overlay.container = shouldShow([overlay EXCEPT !.settings = <<sync>>], hostname)
    /\ overlay.container => overlay.built = <<Layout(sync)>>

\* C33: a handleSettingsChange that finds should-connect true and the phase
\* other than 'disconnected' leaves the socket and its state, isConnecting,
\* the phase, the backoff delay, the episode clock, the automatic-reconnect
\* flag and the reconnect timer as they were, and does nothing but publish
\* settingsChanged.
C33_KeptConnection ==
  /\ Len(fx) = 2
  /\ fx[1].op = "settings"
  /\ fx[1].s = "true"
  /\ fx[2].op = "settingsChanged"
C33_SettingsChangeKeepsConnection ==
  [][(handlers' = handlers - 1 /\ shouldBeConnected(sync)
        /\ connectionState # "disconnected")
       => /\ C33_KeptConnection'
          /\ UNCHANGED <<ws, readyState, isConnecting, connectionState, reconnectDelay,
                         reconnectStartTime, autoReconnectEnabled, reconnectTimer,
                         timers, local>>]_vars
\* the stream URL was changed under an open socket, and the change handled
C33_UrlChangedWhileOpen ==
  /\ C33_KeptConnection
  /\ sync.serverUrl = "not a url"
  /\ ws # NoSocket
  /\ readyState[ws] = "OPEN"
  /\ connectionState = "connected"

\* C34: when a phase event turns a mounted surface's phase to 'connected', no
\* sample of the new connection has reached the surface yet, and the surface
\* shows the placeholder.
C34_PhaseReturns ==
  /\ inbox # <<>>
  /\ inbox' = Tail(inbox)
  /\ Head(inbox).type = "local.connectionState"
  /\ overlay.container
  /\ overlay.connectionState # "connected"
  /\ overlay'.connectionState = "connected"
C34_PlaceholderUntilFirstSample ==
  [][C34_PhaseReturns => overlay'.display = Placeholder]_vars

\* C35: whenever isConnecting is true, a connect() call is suspended between
\* its guard and `new WebSocket`, or a socket it created is still CONNECTING;
\* so once every attempt has reached open, close or the catch block the flag
\* is false.
C35_AttemptInFlight ==
  \/ Pending(M) > 0
  \/ \E s \in DOMAIN readyState : readyState[s] = "CONNECTING"
C35_FlagOnlyWhileInFlight == isConnecting => C35_AttemptInFlight
\* overlapping attempts have each created a socket and every socket has
\* reached its open event
C35_AttemptsEnded ==
  /\ ~isConnecting
  /\ ~C35_AttemptInFlight
  /\ \A s \in DOMAIN readyState : readyState[s] = "OPEN"

====
